---- MODULE Spec2Model ----
(***************************************************************************)
(* Model of the delay-tracking price tracking engine: the priority         *)
(* scheduler (utils/tracking-priority.ts), the batch runner and the        *)
(* observation recorder (scripts/track-prices.ts, multi-strategy version), *)
(* the strategy manager and the two fetch strategies.                      *)
(*                                                                         *)
(* Timestamps are whole minutes since an arbitrary epoch. The code         *)
(* computes (now - t) / (1000*60*60) >= h on milliseconds; on whole        *)
(* minutes that is (now - t) >= h * MinutesPerHour.                        *)
(***************************************************************************)
EXTENDS Integers, Sequences, FiniteSets, TLC

VARIABLES
    now,              \* the wall clock, new Date()
    ticks,            \* how many times the clock has advanced
    watchlist_items,  \* table watchlist_items: product id -> number of rows
    product_views,    \* table product_views: product id -> latest viewed_at or NULL
    last_tracked_at,  \* column products.last_tracked_at: product id -> time or NULL
    price_snapshots,  \* table price_snapshots: product id -> rows in created_at order
    probe,            \* inputs and outputs of the pure scheduler functions
    env,              \* process.env.FORCE_MODE of the current process, or NULL
    entry,            \* which entry point started the current run
    opts,             \* the options trackPrices was called with
    pc,               \* position of trackPrices
    runs,             \* how many runs have been started
    products,         \* the work list returned by getProductsToTrack
    i,                \* the batch loop index of trackPrices
    item,             \* per work-list position: the state of its async callback
    results,          \* the results array of trackPrices
    browser,          \* BrowserHardStrategy.browser: NULL or the instance it points to
    launched,         \* how many rendering engine instances were started in this run
    hist,             \* per product: the attempts that returned, oldest first (history)
    exitCodes,        \* the exit code of every finished run, oldest first (history)
    catalog,          \* the outcome of the catalog query of the current run
    closed,           \* the rendering engine instances closed so far, in closing order
    call,             \* BrowserHardStrategy alone: per caller, the state of its track()
    pages             \* BrowserHardStrategy alone: the page handles that are open

dbVars == <<watchlist_items, product_views, last_tracked_at, price_snapshots>>
runVars == <<env, entry, opts, pc, runs, products, i, item, results, browser, launched, hist,
            exitCodes, catalog, closed, call, pages>>
vars == <<now, ticks, watchlist_items, product_views, last_tracked_at,
          price_snapshots, probe, env, entry, opts, pc, runs, products, i, item,
          results, browser, launched, hist, exitCodes, catalog, closed, call, pages>>

\* null / undefined of the source (an absent timestamp, an absent row)
NULL == -1

MinutesPerHour == 60
HoursPerDay == 24
MinutesPerDay == MinutesPerHour * HoursPerDay

\* enum TrackingPriority
HIGH == "high"
MEDIUM == "medium"
LOW == "low"
INACTIVE == "inactive"
TrackingPriority == {HIGH, MEDIUM, LOW, INACTIVE}

\* the day windows of calculatePriority and the hour thresholds of shouldTrackProduct
RecentDays == 7
ActiveDays == 30
HighHours == 12
MediumHours == 24
LowHours == 168
InactiveHours == 720

\* daysSince... <= d, for a timestamp ts read at time t
daysSinceLE(t, ts, d) == (t - ts) <= d * MinutesPerDay

calculatePriority_strict(product, t) ==
    IF product.watchlist_count > 0 THEN HIGH
    ELSE IF product.last_visited_at # NULL
            /\ (t - product.last_visited_at) < RecentDays * MinutesPerDay THEN HIGH
    ELSE IF product.last_price_change_at # NULL
            /\ daysSinceLE(t, product.last_price_change_at, RecentDays) THEN MEDIUM
    ELSE IF product.last_visited_at # NULL
            /\ daysSinceLE(t, product.last_visited_at, ActiveDays) THEN LOW
    ELSE INACTIVE

\* calculatePriority(product), with now = t
calculatePriority(product, t) ==
    IF product.watchlist_count > 0 THEN HIGH
    ELSE IF product.last_visited_at # NULL
            /\ daysSinceLE(t, product.last_visited_at, RecentDays) THEN HIGH
    ELSE IF product.last_price_change_at # NULL
            /\ daysSinceLE(t, product.last_price_change_at, RecentDays) THEN MEDIUM
    ELSE IF product.last_visited_at # NULL
            /\ daysSinceLE(t, product.last_visited_at, ActiveDays) THEN LOW
    ELSE INACTIVE

shouldTrackProduct_strict(product, t) ==
    IF product.last_tracked_at = NULL THEN TRUE
    ELSE LET minutesSinceTracking == t - product.last_tracked_at IN
         CASE product.priority = HIGH -> minutesSinceTracking > HighHours * MinutesPerHour
           [] product.priority = MEDIUM -> minutesSinceTracking > MediumHours * MinutesPerHour
           [] product.priority = LOW -> minutesSinceTracking > LowHours * MinutesPerHour
           [] product.priority = INACTIVE -> minutesSinceTracking > InactiveHours * MinutesPerHour
           [] OTHER -> FALSE

\* shouldTrackProduct(product), with now = t
shouldTrackProduct(product, t) ==
    IF product.last_tracked_at = NULL THEN TRUE
    ELSE LET minutesSinceTracking == t - product.last_tracked_at IN
         CASE product.priority = HIGH -> minutesSinceTracking >= HighHours * MinutesPerHour
           [] product.priority = MEDIUM -> minutesSinceTracking >= MediumHours * MinutesPerHour
           [] product.priority = LOW -> minutesSinceTracking >= LowHours * MinutesPerHour
           [] product.priority = INACTIVE -> minutesSinceTracking >= InactiveHours * MinutesPerHour
           [] OTHER -> FALSE

(***************************************************************************)
(* The catalog (table products) and the scheduler's query                  *)
(***************************************************************************)
NProd == 3
Products == 1..NProd

\* products.merchant of the catalog rows
merchantOf(p) == CASE p % 3 = 1 -> "mercadolibre"
                   [] p % 3 = 2 -> "other"
                   [] OTHER -> "amazon"
Merchants == {merchantOf(p) : p \in Products}

\* products.tracking_enabled of the catalog rows (BOOLEAN DEFAULT true): tracking
\* of the last product has been switched off
tracking_enabled(p) == p # NProd

\* the rows of `products` in the order the query returns them
Catalog == [p \in Products |-> p]

\* .order('created_at', { ascending: false }).limit(2) on a product's snapshots
priceChanges(p) ==
    LET s == price_snapshots[p]
        n == Len(s)
    IN  IF n = 0 THEN <<>> ELSE IF n = 1 THEN <<s[1]>> ELSE <<s[n], s[n - 1]>>

\* a scheduler that takes the latest observation for a price change
lastPriceChangeAt_latest(p) ==
    LET changes == priceChanges(p)
    IN  IF Len(changes) >= 1 THEN changes[1].created_at ELSE NULL

\* lastPriceChangeAt of getProductsToTrack: set only when there are two rows and
\* their prices differ
lastPriceChangeAt(p) ==
    LET changes == priceChanges(p)
    IN  IF Len(changes) >= 2 /\ changes[1].price # changes[2].price
        THEN changes[1].created_at
        ELSE NULL

\* the per-product metadata object built in the Promise.all of getProductsToTrack
productWithMetadata(p) ==
    [id |-> p,
     merchant |-> merchantOf(p),
     last_tracked_at |-> last_tracked_at[p],
     watchlist_count |-> watchlist_items[p],
     last_price_change_at |-> lastPriceChangeAt(p),
     last_visited_at |-> product_views[p]]

productWithPriority(p, t) ==
    LET m == productWithMetadata(p)
    IN  [id |-> m.id,
         merchant |-> m.merchant,
         priority |-> calculatePriority(m, t),
         last_tracked_at |-> m.last_tracked_at,
         last_price_change_at |-> m.last_price_change_at]

priorityOrder(priority) ==
    CASE priority = HIGH -> 0
      [] priority = MEDIUM -> 1
      [] priority = LOW -> 2
      [] priority = INACTIVE -> 3

\* Array.prototype.sort with a comparator is stable: x goes after every element
\* that does not compare greater than it
RECURSIVE insertByPriority_unstable(_, _)
insertByPriority_unstable(sorted, x) ==
    IF sorted = <<>> THEN <<x>>
    ELSE IF priorityOrder(Head(sorted).priority) - priorityOrder(x.priority) >= 0
         THEN <<x>> \o sorted
         ELSE <<Head(sorted)>> \o insertByPriority_unstable(Tail(sorted), x)

RECURSIVE insertByPriority(_, _)
insertByPriority(sorted, x) ==
    IF sorted = <<>> THEN <<x>>
    ELSE IF priorityOrder(Head(sorted).priority) - priorityOrder(x.priority) > 0
         THEN <<x>> \o sorted
         ELSE <<Head(sorted)>> \o insertByPriority(Tail(sorted), x)

RECURSIVE sortByPriority(_)
sortByPriority(s) ==
    IF s = <<>> THEN <<>>
    ELSE insertByPriority(sortByPriority(SubSeq(s, 1, Len(s) - 1)), s[Len(s)])

\* Array.prototype.slice(0, limit) for limit >= 0
slice0(s, limit) == SubSeq(s, 1, IF limit < Len(s) THEN limit ELSE Len(s))

\* the rows the query returns: all of them when options.merchant is falsy, else those
\* of that merchant
queryProducts(merchant) ==
    SelectSeq(Catalog, LAMBDA p : merchant = "" \/ merchantOf(p) = merchant)

getProductsToTrack_filtered(options, t) ==
    LET rows == queryProducts(options.merchant)
        productsWithPriority == [k \in 1..Len(rows) |-> productWithPriority(rows[k], t)]
    IN  slice0(sortByPriority(SelectSeq(productsWithPriority,
                                        LAMBDA q : shouldTrackProduct(q, t))),
               options.limit)

getProductsToTrack(options, t) ==
    LET rows == queryProducts(options.merchant)
        productsWithPriority == [k \in 1..Len(rows) |-> productWithPriority(rows[k], t)]
        productsToTrack ==
            IF options.force THEN productsWithPriority
            ELSE SelectSeq(productsWithPriority, LAMBDA q : shouldTrackProduct(q, t))
    IN  slice0(sortByPriority(productsToTrack), options.limit)

(***************************************************************************)
(* Strategies                                                              *)
(***************************************************************************)
MaxPrice == 2
Prices == 1..MaxPrice

\* Strings are sequences of atoms: a "." atom and atoms that stand for runs of
\* characters without a dot.

\* String.prototype.includes
includes(str, sub) ==
    \E n \in 1..(Len(str) - Len(sub) + 1) : SubSeq(str, n, n + Len(sub) - 1) = sub

\* the index of the first occurrence of sub in str, 0 when there is none
indexOf(str, sub) ==
    LET at == {n \in 1..(Len(str) - Len(sub) + 1) : SubSeq(str, n, n + Len(sub) - 1) = sub}
    IN  IF at = {} THEN 0 ELSE CHOOSE n \in at : \A m \in at : n <= m

\* str.replace(sub, ''): the first occurrence of sub is removed
removeFirst(str, sub) ==
    LET n == indexOf(str, sub)
    IN  IF n = 0 THEN str
        ELSE SubSeq(str, 1, n - 1) \o SubSeq(str, n + Len(sub), Len(str))

\* the keys of DOMAIN_CONFIG in their order; every entry maps to BROWSER_HARD
DOMAIN_CONFIG == <<
    [domain |-> <<"mercadolibre", ".", "com">>, strategy |-> "BROWSER_HARD"],
    [domain |-> <<"mercadolibre", ".", "com", ".", "co">>, strategy |-> "BROWSER_HARD"],
    [domain |-> <<"mercadolibre", ".", "com", ".", "mx">>, strategy |-> "BROWSER_HARD"],
    [domain |-> <<"mercadolibre", ".", "com", ".", "br">>, strategy |-> "BROWSER_HARD"],
    [domain |-> <<"mercadolibre", ".", "cl">>, strategy |-> "BROWSER_HARD"],
    [domain |-> <<"amazon", ".", "com">>, strategy |-> "BROWSER_HARD"] >>

\* StrategyManager.getStrategyForProduct on an original_url: new URL() throws on a
\* malformed URL (valid = FALSE) and the catch falls through to the default
getStrategyForUrl(url) ==
    IF ~url.valid THEN "HTTP_FAST"
    ELSE LET hostname == removeFirst(url.hostname, <<"www", ".">>)
             hits == {n \in 1..Len(DOMAIN_CONFIG) : includes(hostname, DOMAIN_CONFIG[n].domain)}
         IN  IF hits = {} THEN "HTTP_FAST"
             ELSE DOMAIN_CONFIG[CHOOSE n \in hits : \A m \in hits : n <= m].strategy

\* products.original_url of the catalog rows
original_url(p) ==
    [valid |-> TRUE,
     hostname |-> CASE merchantOf(p) = "mercadolibre" ->
                          <<"articulo", ".", "mercadolibre", ".", "com", ".", "co">>
                    [] merchantOf(p) = "amazon" -> <<"www", ".", "amazon", ".", "com">>
                    [] OTHER -> <<"www", ".", "shop", ".", "com">>]

\* StrategyManager.getStrategyForProduct on the product's original_url
getStrategyForProduct(p) == getStrategyForUrl(original_url(p))

\* what a fetch can come back with: an exception or HTTP error status, or markup
\* from which extractPrice reads the amount `price` (0: nothing matched)
HttpOutcomes ==
    {[kind |-> "error", price |-> NULL]}
    \cup {[kind |-> "html", price |-> v] : v \in 0..MaxPrice}

\* what a page visit can come back with: an exception, a verification URL, or a
\* page on which the mercadolibre adapter parses `price` (NULL: no amount)
BrowserOutcomes ==
    {[kind |-> "exception", price |-> NULL], [kind |-> "bot", price |-> NULL]}
    \cup {[kind |-> "page", price |-> v] : v \in {NULL} \cup (0..MaxPrice)}

Failure(p, error, strategy) ==
    [productId |-> p, success |-> FALSE, price |-> NULL, error |-> error,
     strategyUsed |-> strategy]

Success(p, price, strategy) ==
    [productId |-> p, success |-> TRUE, price |-> price, error |-> "",
     strategyUsed |-> strategy]

\* parseFloat of text that does not start with a number
NAN == -2

\* HttpFastStrategy.extractPrice on a document: doc.jsonld is offer.price of the
\* first JSON-LD block (truthy or not, and what parseFloat makes of it), doc.meta
\* what parseFloat makes of the first matching price meta tag (NULL: no match or no
\* block); the embedded state blob and the DOM are not looked at
extractPrice(doc) ==
    IF doc.jsonld.truthy THEN doc.jsonld.amount
    ELSE IF doc.meta # NULL THEN doc.meta
    ELSE 0

\* HttpFastStrategy.track on the fetched document: the amount of the result, NULL
\* for 'Price not found' (!priceData.price)
httpFastAmount(doc) ==
    LET price == extractPrice(doc)
    IN  IF price = 0 \/ price = NAN THEN NULL ELSE price

\* parsePrice's amount: isNaN(amount) ? null : amount
amountOrNull(v) == IF v = NAN THEN NULL ELSE v

\* the function returned by getAdapterLogic on the rendered document: the meta tag
\* itemprop=price, then the DOM selectors; doc.meta and doc.dom are what parseFloat
\* makes of the text found there (NULL: nothing there)
adapterExtract(merchantName, doc) ==
    IF merchantName # "mercadolibre" THEN NULL
    ELSE LET metaAmount == IF doc.meta = NULL THEN NULL ELSE amountOrNull(doc.meta)
         IN  IF metaAmount # NULL THEN metaAmount
             ELSE IF doc.dom = NULL THEN NULL ELSE amountOrNull(doc.dom)

\* BrowserHardStrategy.track on the rendered document: the amount of the result,
\* NULL for 'Price not found' (extractedData.price.amount === null)
browserHardAmount(merchantName, doc) == adapterExtract(merchantName, doc)

\* HttpFastStrategy.track
HttpFastTrack(p, outcome) ==
    IF outcome.kind = "error" THEN Failure(p, "HTTP error", "HTTP_FAST")
    ELSE IF outcome.price = 0 THEN Failure(p, "Price not found", "HTTP_FAST")
    ELSE Success(p, outcome.price, "HTTP_FAST")

\* an adapter that reads the price of the page for every merchant
adapterLogic_anyMerchant(p, outcome) == outcome.price

\* the function returned by getAdapterLogic: NULL for another merchant, else the
\* extracted price amount (NULL when nothing parsed)
adapterLogic(p, outcome) ==
    IF merchantOf(p) # "mercadolibre" THEN NULL ELSE outcome.price

\* BrowserHardStrategy.track from newPage on, with this.browser = b
BrowserHardTrack(p, outcome, b) ==
    IF b = NULL \/ outcome.kind = "exception"
    THEN Failure(p, "exception", "BROWSER_HARD")
    ELSE IF outcome.kind = "bot"
    THEN Failure(p, "Bot detection (redirect)", "BROWSER_HARD")
    ELSE IF adapterLogic(p, outcome) = NULL
    THEN Failure(p, "Price not found", "BROWSER_HARD")
    ELSE Success(p, adapterLogic(p, outcome), "BROWSER_HARD")

\* result.success && result.price
truthyPrice(result) == result.success /\ result.price # NULL /\ result.price # 0

(***************************************************************************)
(* trackPrices: the batch runner                                           *)
(***************************************************************************)
MaxRuns == 2
MaxConc == 2
MaxTicks == 1
TickSteps == {1, HighHours * MinutesPerHour - 1, HighHours * MinutesPerHour}

\* the options of the cron entry point
CronLimit == 1000
CronConcurrency == 5

NoResult == Failure(NULL, "", "")
\* a batch callback before it starts; start and startTracked remember the product's
\* observations and last-tracked timestamp at the start of the run
PendingItem ==
    [st |-> "pending", result |-> NoResult, last |-> NULL, before |-> <<>>, launches |-> 0,
     dbError |-> FALSE, start |-> <<>>, startTracked |-> NULL]

\* the slice products.slice(i, i + concurrency), as work-list positions
batchOf(start, concurrency, len) ==
    {k \in 1..len : start < k /\ k <= start + concurrency}

InFlight == {k \in DOMAIN item : item[k].st \notin {"pending", "returned", "thrown"}}

\* trackPrices up to the batch loop: the work list is fetched; an empty list returns
trackPrices(options, e, how) ==
    /\ pc \in {"idle", "exit0", "exit1"}
    /\ runs < MaxRuns
    /\ runs' = runs + 1
    /\ env' = e
    /\ entry' = how
    /\ opts' = options
    /\ products' = getProductsToTrack(options, now)
    /\ pc' = IF Len(products') = 0 THEN "exit0" ELSE "loop"
    /\ i' = 0
    /\ item' = [k \in 1..Len(products') |->
                    [PendingItem EXCEPT
                        !.start = price_snapshots[products'[k].id],
                        !.startTracked = last_tracked_at[products'[k].id]]]
    /\ results' = <<>>
    /\ browser' = NULL
    /\ launched' = 0
    /\ exitCodes' = IF Len(products') = 0 THEN Append(exitCodes, 0) ELSE exitCodes
    /\ catalog' = "ok"
    /\ closed' = <<>>
    /\ UNCHANGED <<now, ticks, dbVars, probe, hist, call, pages>>

\* trackPrices when the catalog query fails: getProductsToTrack throws, before the
\* strategy manager exists and outside the try/finally
trackPricesFetchError(options, e, how) ==
    /\ pc \in {"idle", "exit0", "exit1"}
    /\ runs < MaxRuns
    /\ runs' = runs + 1
    /\ env' = e
    /\ entry' = how
    /\ opts' = options
    /\ products' = <<>>
    /\ pc' = "exit1"
    /\ i' = 0
    /\ item' = <<>>
    /\ results' = <<>>
    /\ browser' = NULL
    /\ launched' = 0
    /\ exitCodes' = Append(exitCodes, 1)
    /\ catalog' = "error"
    /\ closed' = <<>>
    /\ UNCHANGED <<now, ticks, dbVars, probe, hist, call, pages>>

\* cron-tracker.ts main
CronMain(e) ==
    trackPrices([limit |-> CronLimit, merchant |-> "",
                 concurrency |-> CronConcurrency, force |-> (e = "true")], e, "cron")

\* the first synchronous stretch of one batch callback: manager.trackProduct up to
\* the first await of strategy.track
dispatched(k) ==
    LET p == products[k].id
        first == getStrategyForProduct(p) = "BROWSER_HARD" /\ browser = NULL
    IN  [item[k] EXCEPT !.st = IF first THEN "launching" ELSE "tracking",
                        !.launches = IF first THEN 1 ELSE 0]

\* one iteration of the for loop up to the await of Promise.all
DispatchBatch ==
    /\ pc \in {"loop", "delay"}
    /\ i < Len(products)
    /\ item' = [k \in DOMAIN item |->
                    IF k \in batchOf(i, opts.concurrency, Len(products))
                    THEN dispatched(k) ELSE item[k]]
    /\ pc' = "batch"
    /\ UNCHANGED <<now, ticks, dbVars, probe, env, entry, opts, runs, products, i,
                   results, browser, launched, hist,
                   exitCodes, catalog, closed, call,
                   pages>>

Running == pc \in {"batch", "closing_fatal"}

\* a rejection of one callback rejects Promise.all: trackPrices goes to its finally
rejected == IF pc = "batch" THEN "closing_fatal" ELSE pc

\* initBrowser: puppeteer.launch resolves
LaunchOk(k) ==
    /\ Running
    /\ item[k].st \in {"launching", "relaunching"}
    /\ launched' = launched + 1
    /\ browser' = launched + 1
    /\ item' = [item EXCEPT ![k].st = "tracking"]
    /\ UNCHANGED <<now, ticks, dbVars, probe, env, entry, opts, pc, runs, products, i,
                   results, hist,
                   exitCodes, catalog, closed, call,
                   pages>>

\* initBrowser: the first launch fails with 'Could not find Chrome', the install runs
LaunchInstall(k) ==
    /\ Running
    /\ item[k].st = "launching"
    /\ item' = [item EXCEPT ![k].st = "relaunching", ![k].launches = 2]
    /\ UNCHANGED <<now, ticks, dbVars, probe, env, entry, opts, pc, runs, products, i,
                   results, browser, launched, hist,
                   exitCodes, catalog, closed, call,
                   pages>>

\* initBrowser throws: another launch error, a failed install or a failed second launch
LaunchFail(k) ==
    /\ Running
    /\ item[k].st \in {"launching", "relaunching"}
    /\ item' = [item EXCEPT ![k].st = "thrown"]
    /\ pc' = rejected
    /\ UNCHANGED <<now, ticks, dbVars, probe, env, entry, opts, runs, products, i,
                   results, browser, launched, hist,
                   exitCodes, catalog, closed, call,
                   pages>>

\* history: the attempt of work-list position k returns; `before` and `after` are the
\* product's stored observations when track() returned and now
finished(k, it, after) ==
    LET p == products[k].id
    IN  Append(hist[p],
               [run |-> runs, force |-> opts.force, at |-> now,
                success |-> it.result.success, price |-> it.result.price,
                recorded |-> truthyPrice(it.result),
                before |-> it.before, after |-> after])

\* strategy.track returns its result; the callback goes on to the recorder or returns
Track(k, outcome) ==
    /\ Running
    /\ item[k].st = "tracking"
    /\ LET p == products[k].id
           result == IF getStrategyForProduct(p) = "HTTP_FAST"
                     THEN HttpFastTrack(p, outcome)
                     ELSE BrowserHardTrack(p, outcome, browser)
           it == [item[k] EXCEPT !.result = result,
                                 !.before = price_snapshots[p],
                                 !.st = IF truthyPrice(result) THEN "db_read" ELSE "returned"]
       IN  /\ outcome \in (IF getStrategyForProduct(p) = "HTTP_FAST"
                            THEN HttpOutcomes ELSE BrowserOutcomes)
           /\ item' = [item EXCEPT ![k] = it]
           /\ hist' = IF it.st = "returned"
                      THEN [hist EXCEPT ![p] = finished(k, it, price_snapshots[p])]
                      ELSE hist
    /\ UNCHANGED <<now, ticks, dbVars, probe, env, entry, opts, pc, runs, products, i,
                   results, browser, launched, exitCodes, catalog, closed, call,
                   pages>>

\* a read without the filter on product_id: the latest row of the table
lastSnapshot_anyProduct(p) ==
    LET with == {q \in Products : price_snapshots[q] # <<>>}
        q == CHOOSE x \in with : \A y \in with : y <= x
    IN  IF with = {} THEN NULL ELSE price_snapshots[q][Len(price_snapshots[q])].price

\* the latest stored observation: .order('created_at', desc).limit(1).single()
lastSnapshot(p) ==
    IF price_snapshots[p] = <<>> THEN NULL
    ELSE price_snapshots[p][Len(price_snapshots[p])].price

priceChanged_always(last, newPrice) == TRUE

\* the condition under which handleDatabaseUpdate inserts
priceChanged(last, newPrice) == last = NULL \/ last # newPrice

\* handleDatabaseUpdate: the read of the last snapshot
DbRead(k) ==
    /\ Running
    /\ item[k].st = "db_read"
    /\ LET p == products[k].id
           last == lastSnapshot(p)
       IN  item' = [item EXCEPT ![k].last = last,
                                ![k].st = IF priceChanged(last, item[k].result.price)
                                          THEN "db_insert" ELSE "db_touch"]
    /\ UNCHANGED <<now, ticks, dbVars, probe, env, entry, opts, pc, runs, products, i,
                   results, browser, launched, hist,
                   exitCodes, catalog, closed, call,
                   pages>>

\* handleDatabaseUpdate when the read fails: supabase resolves to { data: null,
\* error }, the error is not looked at and lastSnapshot is null
DbReadError(k) ==
    /\ Running
    /\ item[k].st = "db_read"
    /\ item' = [item EXCEPT ![k].last = NULL, ![k].dbError = TRUE,
                            ![k].st = IF priceChanged(NULL, item[k].result.price)
                                      THEN "db_insert" ELSE "db_touch"]
    /\ UNCHANGED <<now, ticks, dbVars, probe, env, entry, opts, pc, runs, products, i,
                   results, browser, launched, hist, exitCodes, catalog, closed, call,
                   pages>>

\* a write that replaces the product's latest row where there is one
insertSnapshot_upsert(p, price) ==
    LET row == [price |-> price, created_at |-> now, source |-> "automated-tracking"]
    IN  [price_snapshots EXCEPT ![p] =
            IF @ = <<>> THEN <<row>> ELSE [@ EXCEPT ![Len(@)] = row]]

\* supabase.from('price_snapshots').insert(snapshot): a new row of the product
insertSnapshot(p, price) ==
    [price_snapshots EXCEPT ![p] =
        Append(@, [price |-> price, created_at |-> now,
                   source |-> "automated-tracking"])]

\* handleDatabaseUpdate: the insert of the new snapshot
DbInsert(k) ==
    /\ Running
    /\ item[k].st = "db_insert"
    /\ price_snapshots' = insertSnapshot(products[k].id, item[k].result.price)
    /\ item' = [item EXCEPT ![k].st = "db_touch"]
    /\ UNCHANGED <<now, ticks, watchlist_items, product_views, last_tracked_at, probe,
                   env, entry, opts, pc, runs, products, i, results, browser, launched,
                   hist,
                   exitCodes, catalog, closed, call,
                   pages>>

\* handleDatabaseUpdate when the insert fails: supabase resolves to { error }, which
\* is not looked at; no row is stored
DbInsertError(k) ==
    /\ Running
    /\ item[k].st = "db_insert"
    /\ item' = [item EXCEPT ![k].st = "db_touch", ![k].dbError = TRUE]
    /\ UNCHANGED <<now, ticks, dbVars, probe, env, entry, opts, pc, runs, products, i,
                   results, browser, launched, hist, exitCodes, catalog, closed, call,
                   pages>>

\* updateLastTracked(productId)
updateLastTracked(p) == [last_tracked_at EXCEPT ![p] = now]

\* handleDatabaseUpdate: updateLastTracked, then the callback returns its result
DbTouch(k) ==
    /\ Running
    /\ item[k].st = "db_touch"
    /\ LET p == products[k].id
           it == [item[k] EXCEPT !.st = "returned"]
       IN  /\ last_tracked_at' = updateLastTracked(p)
           /\ item' = [item EXCEPT ![k] = it]
           /\ hist' = [hist EXCEPT ![p] = finished(k, it, price_snapshots[p])]
    /\ UNCHANGED <<now, ticks, watchlist_items, product_views, price_snapshots, probe,
                   env, entry, opts, pc, runs, products, i, results, browser, launched,
                   exitCodes, catalog, closed, call,
                   pages>>

\* updateLastTracked when the update fails: the error is logged, nothing is
\* stored and the callback returns the strategy's result
DbTouchError(k) ==
    /\ Running
    /\ item[k].st = "db_touch"
    /\ LET p == products[k].id
           it == [item[k] EXCEPT !.st = "returned", !.dbError = TRUE]
       IN  /\ item' = [item EXCEPT ![k] = it]
           /\ hist' = [hist EXCEPT ![p] = finished(k, it, price_snapshots[p])]
    /\ UNCHANGED <<now, ticks, dbVars, probe, env, entry, opts, pc, runs, products, i,
                   results, browser, launched, exitCodes, catalog, closed, call, pages>>

BatchDone_failfast ==
    /\ pc = "batch"
    /\ LET batch == batchOf(i, opts.concurrency, Len(products))
           last == IF i + opts.concurrency < Len(products)
                   THEN i + opts.concurrency ELSE Len(products)
       IN  /\ \A k \in batch : item[k].st = "returned"
           /\ results' = results \o [j \in 1..(last - i) |-> item[i + j].result]
           /\ pc' = IF i + opts.concurrency < Len(products)
                       /\ \A k \in batch : item[k].result.success
                    THEN "delay" ELSE "closing"
    /\ i' = i + opts.concurrency
    /\ UNCHANGED <<now, ticks, dbVars, probe, env, entry, opts, runs, products, item,
                   browser, launched, hist, exitCodes, catalog, closed, call,
                   pages>>

BatchDone_early ==
    /\ pc = "batch"
    /\ LET batch == batchOf(i, opts.concurrency, Len(products))
           last == IF i + opts.concurrency < Len(products)
                   THEN i + opts.concurrency ELSE Len(products)
       IN  /\ \E k \in batch : item[k].st = "returned"
           /\ results' = results \o [j \in 1..(last - i) |-> item[i + j].result]
    /\ i' = i + opts.concurrency
    /\ pc' = IF i + opts.concurrency < Len(products) THEN "delay" ELSE "closing"
    /\ UNCHANGED <<now, ticks, dbVars, probe, env, entry, opts, runs, products, item,
                   browser, launched, hist, exitCodes, catalog, closed, call,
                   pages>>

\* Promise.all resolves: results.push(...batchResults), then the delay or the summary
BatchDone ==
    /\ pc = "batch"
    /\ LET batch == batchOf(i, opts.concurrency, Len(products))
           last == IF i + opts.concurrency < Len(products)
                   THEN i + opts.concurrency ELSE Len(products)
       IN  /\ \A k \in batch : item[k].st = "returned"
           /\ results' = results \o [j \in 1..(last - i) |-> item[i + j].result]
    /\ i' = i + opts.concurrency
    /\ pc' = IF i + opts.concurrency < Len(products) THEN "delay" ELSE "closing"
    /\ UNCHANGED <<now, ticks, dbVars, probe, env, entry, opts, runs, products, item,
                   browser, launched, hist,
                   exitCodes, catalog, closed, call,
                   pages>>

\* finally: manager.closeAll(), then the process exits
CloseAll ==
    /\ pc \in {"closing", "closing_fatal"}
    /\ browser' = NULL
    /\ pc' = IF pc = "closing" THEN "exit0" ELSE "exit1"
    /\ exitCodes' = Append(exitCodes, IF pc = "closing" THEN 0 ELSE 1)
    /\ closed' = IF browser # NULL THEN Append(closed, browser) ELSE closed
    /\ UNCHANGED <<now, ticks, dbVars, probe, env, entry, opts, runs, products, i, item,
                   results, launched, hist, catalog, call, pages>>

\* time passes between two runs
Tick(d) ==
    /\ pc \in {"exit0", "exit1"}
    /\ ticks < MaxTicks
    /\ now' = now + d
    /\ ticks' = ticks + 1
    /\ UNCHANGED <<dbVars, probe, runVars>>

(***************************************************************************)
(* Specifications                                                          *)
(***************************************************************************)
MaxLimit == 3
MaxWatch == 1
\* process.env.FORCE_MODE: unset, or a string
UNSET == "undefined"
ForceModeValues == {UNSET, "true", "false", "1", "TRUE"}

\* options.merchant left out (undefined)
ANY == ""

NoProbe == [in |-> [watchlist_count |-> 0, last_visited_at |-> NULL,
                    last_price_change_at |-> NULL, last_tracked_at |-> NULL,
                    priority |-> INACTIVE],
            tier |-> "none", due |-> <<>>]

IdleRun ==
    /\ env = UNSET
    /\ entry = "none"
    /\ opts = [limit |-> 0, merchant |-> ANY, concurrency |-> 1, force |-> FALSE]
    /\ pc = "idle"
    /\ runs = 0
    /\ products = <<>>
    /\ i = 0
    /\ item = <<>>
    /\ results = <<>>
    /\ browser = NULL
    /\ launched = 0
    /\ hist = [p \in Products |-> <<>>]
    /\ exitCodes = <<>>
    /\ catalog = "none"
    /\ closed = <<>>
    /\ call = <<>>
    /\ pages = {}

\* a seeded catalog nobody has tracked or viewed yet; every other product is on a
\* watchlist
Init ==
    /\ now = 0
    /\ ticks = 0
    /\ watchlist_items = [p \in Products |-> p % 2]
    /\ product_views = [p \in Products |-> NULL]
    /\ last_tracked_at = [p \in Products |-> NULL]
    /\ price_snapshots = [p \in Products |-> <<>>]
    /\ probe = NoProbe
    /\ IdleRun

RunOptions ==
    [limit : {MaxLimit}, merchant : {ANY}, concurrency : 1..MaxConc,
     force : BOOLEAN]

Next ==
    \/ \E o \in RunOptions : trackPrices(o, UNSET, "call")
    \/ \E o \in RunOptions : trackPricesFetchError(o, UNSET, "call")
    \/ DispatchBatch
    \/ \E k \in DOMAIN item : LaunchOk(k)
    \/ \E k \in DOMAIN item : LaunchInstall(k)
    \/ \E k \in DOMAIN item : LaunchFail(k)
    \/ \E k \in DOMAIN item : \E o \in HttpOutcomes \cup BrowserOutcomes : Track(k, o)
    \/ \E k \in DOMAIN item : DbRead(k)
    \/ \E k \in DOMAIN item : DbInsert(k)
    \/ \E k \in DOMAIN item : DbTouch(k)
    \/ BatchDone
    \/ CloseAll
    \/ \E d \in TickSteps : Tick(d)

Spec == Init /\ [][Next]_vars

(***************************************************************************)
(* Runs over a catalog whose products all have the same priority: the work *)
(* list is in catalog order and products of both strategies share a batch  *)
(***************************************************************************)
\* fetches and page visits that yield a price, and one that fails
PersistOutcomes ==
    {[kind |-> "error", price |-> NULL]}
    \cup {[kind |-> k, price |-> v] : k \in {"html", "page"}, v \in Prices}

InitBatch ==
    /\ now = 0
    /\ ticks = 0
    /\ watchlist_items = [p \in Products |-> 0]
    /\ product_views = [p \in Products |-> NULL]
    /\ last_tracked_at = [p \in Products |-> NULL]
    /\ price_snapshots = [p \in Products |-> <<>>]
    /\ probe = NoProbe
    /\ IdleRun

NextBatch ==
    \/ \E o \in RunOptions : trackPrices(o, UNSET, "call")
    \/ DispatchBatch
    \/ \E k \in DOMAIN item : LaunchOk(k)
    \/ \E k \in DOMAIN item : \E o \in PersistOutcomes : Track(k, o)
    \/ \E k \in DOMAIN item : DbRead(k)
    \/ \E k \in DOMAIN item : DbInsert(k)
    \/ \E k \in DOMAIN item : DbTouch(k)
    \/ BatchDone
    \/ CloseAll
    \/ \E d \in TickSteps : Tick(d)

SpecBatch == InitBatch /\ [][NextBatch]_vars

(***************************************************************************)
(* Runs against a repository whose calls can fail                          *)
(***************************************************************************)
NextPersist ==
    \/ \E o \in RunOptions : trackPrices(o, UNSET, "call")
    \/ DispatchBatch
    \/ \E k \in DOMAIN item : LaunchOk(k)
    \/ \E k \in DOMAIN item : \E o \in PersistOutcomes : Track(k, o)
    \/ \E k \in DOMAIN item : DbRead(k)
    \/ \E k \in DOMAIN item : DbReadError(k)
    \/ \E k \in DOMAIN item : DbInsert(k)
    \/ \E k \in DOMAIN item : DbInsertError(k)
    \/ \E k \in DOMAIN item : DbTouch(k)
    \/ \E k \in DOMAIN item : DbTouchError(k)
    \/ BatchDone
    \/ CloseAll
    \/ \E d \in TickSteps : Tick(d)

SpecPersist == Init /\ [][NextPersist]_vars

(***************************************************************************)
(* The pure scheduler functions on drawn inputs                            *)
(***************************************************************************)
ProbeNow == 50000

\* ages, in minutes, around the 7 day and 30 day windows; -1 is a timestamp ahead
\* of the local clock
DayAges ==
    {-1, 0} \cup {d * MinutesPerDay + e : d \in {RecentDays, ActiveDays}, e \in {-1, 0, 1}}

\* ages, in minutes, around the four thresholds, and 10 hours
HourAges ==
    {0, 10 * MinutesPerHour}
    \cup {h * MinutesPerHour + e :
            h \in {HighHours, MediumHours, LowHours, InactiveHours}, e \in {-1, 0, 1}}

ProbeInputs ==
    [watchlist_count : 0..MaxWatch,
     last_visited_at : {NULL} \cup {ProbeNow - a : a \in DayAges},
     last_price_change_at : {NULL} \cup {ProbeNow - a : a \in DayAges},
     last_tracked_at : {NULL} \cup {ProbeNow - a : a \in HourAges},
     priority : TrackingPriority]

InitPure ==
    /\ now = ProbeNow
    /\ ticks = 0
    /\ watchlist_items = [p \in Products |-> 0]
    /\ product_views = [p \in Products |-> NULL]
    /\ last_tracked_at = [p \in Products |-> NULL]
    /\ price_snapshots = [p \in Products |-> <<>>]
    /\ probe \in [in : ProbeInputs, tier : {"none"}, due : {<<>>}]
    /\ IdleRun

CalcPriority ==
    /\ probe.tier = "none"
    /\ probe' = [probe EXCEPT !.tier = calculatePriority(probe.in, now)]
    /\ UNCHANGED <<now, ticks, dbVars, runVars>>

ShouldTrack ==
    /\ probe.due = <<>>
    /\ probe' = [probe EXCEPT !.due = <<shouldTrackProduct(probe.in, now)>>]
    /\ UNCHANGED <<now, ticks, dbVars, runVars>>

NextPure == CalcPriority \/ ShouldTrack

SpecPure == InitPure /\ [][NextPure]_vars

(***************************************************************************)
(* The strategy selector on drawn URLs                                     *)
(***************************************************************************)
MaxHostLen == 5
HostAtoms == {"www", ".", "mercadolibre", "amazon", "com", "co", "cl", "x"}

\* a hostname the URL parser accepts: labels separated by single dots
wellFormedHost(h) ==
    /\ Len(h) > 0
    /\ h[1] # "." /\ h[Len(h)] # "."
    /\ \A n \in 1..(Len(h) - 1) : ~(h[n] = "." /\ h[n + 1] = ".")

Hostnames ==
    {h \in UNION {[1..n -> HostAtoms] : n \in 1..MaxHostLen} : wellFormedHost(h)}
    \cup {<<"www", ".", "mercadolibre", ".", "com", ".", "co">>,
          <<"articulo", ".", "mercadolibre", ".", "com", ".", "co">>,
          <<"www", ".", "amazon", ".", "com", ".", "mx">>}

UrlInputs ==
    {[valid |-> TRUE, hostname |-> h] : h \in Hostnames}
    \cup {[valid |-> FALSE, hostname |-> <<>>]}

InitSelect ==
    /\ now = 0
    /\ ticks = 0
    /\ watchlist_items = [p \in Products |-> 0]
    /\ product_views = [p \in Products |-> NULL]
    /\ last_tracked_at = [p \in Products |-> NULL]
    /\ price_snapshots = [p \in Products |-> <<>>]
    /\ probe \in [url : UrlInputs, strategy : {"none"}]
    /\ IdleRun

SelectStrategy ==
    /\ probe.strategy = "none"
    /\ probe' = [probe EXCEPT !.strategy = getStrategyForUrl(probe.url)]
    /\ UNCHANGED <<now, ticks, dbVars, runVars>>

NextSelect == SelectStrategy

SpecSelect == InitSelect /\ [][NextSelect]_vars

(***************************************************************************)
(* The extraction cascades on drawn documents                              *)
(***************************************************************************)
\* the amounts the stages of a drawn document hold, one per stage
JsonLdAmount == 129900
MetaAmount == 7
BlobAmount == 8
DomAmount == 9

\* offer.price of the structured-data block: absent, the number 0, the text "0",
\* a text that is no number, a price
JsonLdValues ==
    {[truthy |-> FALSE, amount |-> NULL], [truthy |-> FALSE, amount |-> 0],
     [truthy |-> TRUE, amount |-> 0], [truthy |-> TRUE, amount |-> NAN],
     [truthy |-> TRUE, amount |-> JsonLdAmount]}

Documents ==
    [jsonld : JsonLdValues,
     meta : {NULL, NAN, 0, MetaAmount},
     blob : {NULL, BlobAmount},
     dom : {NULL, NAN, 0, DomAmount}]

InitCascade ==
    /\ now = 0
    /\ ticks = 0
    /\ watchlist_items = [p \in Products |-> 0]
    /\ product_views = [p \in Products |-> NULL]
    /\ last_tracked_at = [p \in Products |-> NULL]
    /\ price_snapshots = [p \in Products |-> <<>>]
    /\ probe \in [doc : Documents, strategy : {"HTTP_FAST", "BROWSER_HARD"}, out : {<<>>}]
    /\ IdleRun

ExtractHttp ==
    /\ probe.strategy = "HTTP_FAST"
    /\ probe.out = <<>>
    /\ probe' = [probe EXCEPT !.out = <<httpFastAmount(probe.doc)>>]
    /\ UNCHANGED <<now, ticks, dbVars, runVars>>

ExtractBrowser ==
    /\ probe.strategy = "BROWSER_HARD"
    /\ probe.out = <<>>
    /\ probe' = [probe EXCEPT !.out = <<browserHardAmount("mercadolibre", probe.doc)>>]
    /\ UNCHANGED <<now, ticks, dbVars, runVars>>

NextCascade == ExtractHttp \/ ExtractBrowser

SpecCascade == InitCascade /\ [][NextCascade]_vars

(***************************************************************************)
(* parsePrice on drawn price texts                                         *)
(*                                                                         *)
(* A text is a sequence of characters. A parsed amount is the record       *)
(* [int, frac]: the integer part as a number and the fraction digits with  *)
(* their trailing zeros dropped, so that equal records are equal numbers.  *)
(***************************************************************************)
digitValue ==
    [c \in {"0", "1", "2", "3", "4", "5", "6", "7", "8", "9"} |->
        CASE c = "0" -> 0 [] c = "1" -> 1 [] c = "2" -> 2 [] c = "3" -> 3
          [] c = "4" -> 4 [] c = "5" -> 5 [] c = "6" -> 6 [] c = "7" -> 7
          [] c = "8" -> 8 [] c = "9" -> 9]

\* \d
DigitChars == DOMAIN digitValue

\* [\d,.]
NumChars == DigitChars \cup {".", ","}

\* the length of the longest run of characters of the class cls that starts at k
RECURSIVE runLength(_, _, _)
runLength(s, k, cls) ==
    IF k <= Len(s) /\ s[k] \in cls THEN 1 + runLength(s, k + 1, cls) ELSE 0

\* the number a run of digits denotes
RECURSIVE digitsValue(_)
digitsValue(ds) ==
    IF ds = <<>> THEN 0
    ELSE 10 * digitsValue(SubSeq(ds, 1, Len(ds) - 1)) + digitValue[ds[Len(ds)]]

\* fraction digits without their trailing zeros
RECURSIVE trimZeros(_)
trimZeros(ds) ==
    IF ds # <<>> /\ ds[Len(ds)] = "0" THEN trimZeros(SubSeq(ds, 1, Len(ds) - 1)) ELSE ds

\* parseFloat on a text of digits, '.' and ',': the longest prefix of the shape
\* digits [. digits] with at least one digit; <<>> is NaN
parseFloat(s) ==
    LET n == runLength(s, 1, DigitChars)
        m == IF n < Len(s) /\ s[n + 1] = "." THEN runLength(s, n + 2, DigitChars) ELSE 0
    IN  IF n + m = 0 THEN <<>>
        ELSE <<[int |-> digitsValue(SubSeq(s, 1, n)),
                frac |-> trimZeros(SubSeq(s, n + 2, n + 1 + m))]>>

\* match[2] of /([$€£¥A-Z]{1,3})?\s*([\d,.]+)/i: the first longest run of
\* digits, '.' and ','; <<>> when the text has none (no match)
match2(raw) ==
    LET at == {k \in 1..Len(raw) : raw[k] \in NumChars}
        k0 == CHOOSE k \in at : \A j \in at : k <= j
    IN  IF at = {} THEN <<>>
        ELSE SubSeq(raw, k0, k0 + runLength(raw, k0, NumChars) - 1)

\* str.replace(/\./g, "")
removeDots(str) == SelectSeq(str, LAMBDA c : c # ".")

\* str.replace(",", "."): the first ',' becomes '.'
commaToDot(str) ==
    LET k == indexOf(str, <<",">>)
    IN  IF k = 0 THEN str ELSE [str EXCEPT ![k] = "."]

\* the currency parsePrice derives from window.location.hostname
currencyOfHost(host) ==
    IF includes(host, <<".", "com", ".", "br">>) THEN "BRL"
    ELSE IF includes(host, <<".", "com", ".", "co">>) THEN "COP"
    ELSE IF includes(host, <<".", "com", ".", "mx">>) THEN "MXN"
    ELSE IF includes(host, <<".", "cl">>) THEN "CLP"
    ELSE "USD"

ThousandsDotCurrencies == {"COP", "CLP", "ARS", "BRL"}

\* parsePrice without the handling of thousands-dot currencies
parsePrice_plain(raw, host) ==
    LET amountStr == match2(raw)
    IN  IF amountStr = <<>> THEN [amount |-> <<>>, currency |-> "null"]
        ELSE [amount |-> parseFloat(amountStr), currency |-> currencyOfHost(host)]

\* parsePrice(raw) of the page adapter, on a page of the given host; amount <<>>
\* is null
parsePrice(raw, host) ==
    LET m2 == match2(raw)
        currency == currencyOfHost(host)
        hasDot == includes(m2, <<".">>)
        hasComma == includes(m2, <<",">>)
        amountStr ==
            IF currency \in ThousandsDotCurrencies
            THEN IF hasDot /\ ~hasComma THEN removeDots(m2)
                 ELSE IF hasComma /\ hasDot THEN commaToDot(removeDots(m2))
                 ELSE IF hasComma THEN commaToDot(m2)
                 ELSE m2
            ELSE m2
    IN  IF raw = <<>> \/ m2 = <<>> THEN [amount |-> <<>>, currency |-> "null"]
        ELSE [amount |-> parseFloat(amountStr), currency |-> currency]

MaxRawLen == 4

\* the characters of the drawn texts
PriceChars == {"1", "0", ".", ",", "$"}

RECURSIVE textsUpTo(_, _)
textsUpTo(chars, n) ==
    IF n = 0 THEN {<<>>}
    ELSE LET shorter == textsUpTo(chars, n - 1)
         IN  shorter \cup {Append(t, c) : t \in shorter, c \in chars}

\* price texts as the product pages of the stores show them
PriceExamples ==
    {<<"7", "0", ".", "3", "7", "8">>,
     <<"4", "9", ",", "9", "9">>,
     <<"1", ".", "2", "3", "4", ",", "5", "6">>,
     <<"$", " ", "1", ".", "2", "9", "9", ".", "9", "0", "0">>}

RawInputs == textsUpTo(PriceChars, MaxRawLen) \cup PriceExamples

\* the hosts of the pages the adapter runs on
PriceHosts ==
    {<<"www", ".", "mercadolibre", ".", "com", ".", "co">>,
     <<"www", ".", "mercadolibre", ".", "com", ".", "br">>,
     <<"www", ".", "mercadolibre", ".", "cl">>,
     <<"www", ".", "mercadolibre", ".", "com", ".", "mx">>,
     <<"www", ".", "mercadolibre", ".", "com", ".", "ar">>,
     <<"www", ".", "amazon", ".", "com">>}

InitParse ==
    /\ now = 0
    /\ ticks = 0
    /\ watchlist_items = [p \in Products |-> 0]
    /\ product_views = [p \in Products |-> NULL]
    /\ last_tracked_at = [p \in Products |-> NULL]
    /\ price_snapshots = [p \in Products |-> <<>>]
    /\ probe \in [raw : RawInputs, host : PriceHosts, out : {<<>>}]
    /\ IdleRun

ParsePrice ==
    /\ probe.out = <<>>
    /\ probe' = [probe EXCEPT !.out = <<parsePrice(probe.raw, probe.host)>>]
    /\ UNCHANGED <<now, ticks, dbVars, runVars>>

NextParse == ParsePrice

SpecParse == InitParse /\ [][NextParse]_vars

(***************************************************************************)
(* normalizeUrl on drawn URL texts                                         *)
(*                                                                         *)
(* A URL text is the record of its parts as written: whether new URL()     *)
(* accepts it, the host and whether it is written in upper case, the query *)
(* (absent, or the list of its parameters as written) and the fragment     *)
(* (absent, a bare '#', or '#' with text). A parameter is written as       *)
(* "name", "name=v", "name=v+w" or "name=v%20w".                           *)
(***************************************************************************)
paramsToRemove ==
    <<"utm_source", "utm_medium", "utm_campaign", "ref", "tag",
      "tracking_id", "wid", "sid", "polycard_client", "searchVariation",
      "search_layout", "position", "type", "reco_item_pos", "reco_backend",
      "reco_backend_type", "reco_client", "reco_id", "reco_model",
      "c_id", "c_uid", "da_id", "da_position", "id_origin", "da_sort_algorithm">>

\* URLSearchParams.delete that removes only the first pair of the name
searchParamsDelete_first(list, name) ==
    LET at == {n \in 1..Len(list) : list[n].name = name}
        k == CHOOSE n \in at : \A m \in at : n <= m
    IN  IF at = {} THEN list
        ELSE SubSeq(list, 1, k - 1) \o SubSeq(list, k + 1, Len(list))

\* URLSearchParams.delete(name): every pair of that name leaves the list
searchParamsDelete(list, name) == SelectSeq(list, LAMBDA q : q.name # name)

\* paramsToRemove.forEach(param => urlObj.searchParams.delete(param))
RECURSIVE deleteAll(_, _)
deleteAll(list, n) ==
    IF n > Len(paramsToRemove) THEN list
    ELSE deleteAll(searchParamsDelete(list, paramsToRemove[n]), n + 1)

\* the application/x-www-form-urlencoded serialisation of a pair, which
\* searchParams writes back into the URL: always "name=value", a space as '+'
formEncode(q) ==
    [name |-> q.name, form |-> IF q.form \in {"bare", "plain"} THEN "plain" ELSE "plus"]

\* the query after the deletions: the remaining pairs re-serialised, none when
\* no pair remains
updateSearch(list) ==
    [present |-> list # <<>>, params |-> [n \in 1..Len(list) |-> formEncode(list[n])]]

\* normalizeUrl(url): a text new URL() rejects is returned as it is; otherwise
\* the serialisation of the parsed URL (host in lower case) without its query
\* for a mercadolibre host, without the tracking parameters for other hosts,
\* and without fragment
normalizeUrl(url) ==
    IF ~url.valid THEN url
    ELSE [valid |-> TRUE,
          host |-> url.host,
          upper |-> FALSE,
          query |-> IF includes(url.host, <<"mercadolibre">>)
                    THEN [present |-> FALSE, params |-> <<>>]
                    ELSE updateSearch(deleteAll(url.query.params, 1)),
          hash |-> "none"]

MaxParams == 2

ParamNames == {"utm_source", "ref", "id"}

ParamForms == {"bare", "plain", "plus", "pct"}

Params == [name : ParamNames, form : ParamForms]

RECURSIVE listsUpTo(_, _)
listsUpTo(elems, n) ==
    IF n = 0 THEN {<<>>}
    ELSE LET shorter == listsUpTo(elems, n - 1)
         IN  shorter \cup {Append(l, e) : l \in shorter, e \in elems}

\* absent, '?' alone, or '?' and parameters
Queries ==
    {[present |-> FALSE, params |-> <<>>]}
        \cup {[present |-> TRUE, params |-> l] : l \in listsUpTo(Params, MaxParams)}

UrlTexts ==
    [valid : BOOLEAN,
     host : {<<"articulo", ".", "mercadolibre", ".", "com", ".", "co">>,
             <<"www", ".", "shop", ".", "com">>},
     upper : BOOLEAN,
     query : Queries,
     hash : {"none", "empty", "text"}]

InitUrl ==
    /\ now = 0
    /\ ticks = 0
    /\ watchlist_items = [p \in Products |-> 0]
    /\ product_views = [p \in Products |-> NULL]
    /\ last_tracked_at = [p \in Products |-> NULL]
    /\ price_snapshots = [p \in Products |-> <<>>]
    /\ probe \in [url : UrlTexts, once : {<<>>}, twice : {<<>>}]
    /\ IdleRun

NormalizeOnce ==
    /\ probe.once = <<>>
    /\ probe' = [probe EXCEPT !.once = <<normalizeUrl(probe.url)>>]
    /\ UNCHANGED <<now, ticks, dbVars, runVars>>

NormalizeAgain ==
    /\ probe.once # <<>>
    /\ probe.twice = <<>>
    /\ probe' = [probe EXCEPT !.twice = <<normalizeUrl(probe.once[1])>>]
    /\ UNCHANGED <<now, ticks, dbVars, runVars>>

NextUrl == NormalizeOnce \/ NormalizeAgain

SpecUrl == InitUrl /\ [][NextUrl]_vars

(***************************************************************************)
(* BrowserHardStrategy: concurrent track() calls on one strategy object    *)
(*                                                                         *)
(* call[c] is the position of call c in track(), the product it tracks,    *)
(* its local variable `page` (NULL, or the handle newPage returned), the   *)
(* engine instance that page is on, what the call saw on the page (bot     *)
(* redirect, a page, an exception), whether page.evaluate ran the adapter  *)
(* and the result it returned; pages is the set of handles that are open.  *)
(***************************************************************************)
MaxCalls == 2
Callers == 1..MaxCalls

\* what the run leaves alone while the strategy object works
strategyFrame ==
    <<now, ticks, dbVars, probe, env, entry, opts, pc, runs, products, i, item, results,
      hist, exitCodes, catalog>>

\* the products the strategy manager hands to this strategy
BrowserProducts == {p \in Products : getStrategyForProduct(p) = "BROWSER_HARD"}

InitBrowser ==
    /\ now = 0
    /\ ticks = 0
    /\ watchlist_items = [p \in Products |-> 0]
    /\ product_views = [p \in Products |-> NULL]
    /\ last_tracked_at = [p \in Products |-> NULL]
    /\ price_snapshots = [p \in Products |-> <<>>]
    /\ probe = NoProbe
    /\ env = UNSET
    /\ entry = "none"
    /\ opts = [limit |-> 0, merchant |-> ANY, concurrency |-> 1, force |-> FALSE]
    /\ pc = "idle"
    /\ runs = 0
    /\ products = <<>>
    /\ i = 0
    /\ item = <<>>
    /\ results = <<>>
    /\ hist = [p \in Products |-> <<>>]
    /\ exitCodes = <<>>
    /\ catalog = "none"
    /\ browser = NULL
    /\ launched = 0
    /\ closed = <<>>
    /\ call = [c \in Callers |-> [st |-> "idle", p |-> NULL, page |-> NULL, on |-> NULL,
                              saw |-> "", amount |-> NULL, evaluated |-> FALSE,
                              result |-> <<>>]]
    /\ pages = {}

\* track(product) is called: if (!this.browser) await this.initBrowser()
BH_Track(c, p) ==
    /\ call[c].st = "idle"
    /\ call' = [call EXCEPT ![c].st = IF browser = NULL THEN "launching" ELSE "ready",
                            ![c].p = p]
    /\ UNCHANGED <<strategyFrame, browser, launched, closed, pages>>

\* initBrowser: puppeteer.launch resolves
BH_LaunchOk(c) ==
    /\ call[c].st \in {"launching", "relaunching"}
    /\ launched' = launched + 1
    /\ browser' = launched + 1
    /\ call' = [call EXCEPT ![c].st = "ready"]
    /\ UNCHANGED <<strategyFrame, closed, pages>>

\* initBrowser: 'Could not find Chrome', the install runs
BH_LaunchInstall(c) ==
    /\ call[c].st = "launching"
    /\ call' = [call EXCEPT ![c].st = "relaunching"]
    /\ UNCHANGED <<strategyFrame, browser, launched, closed, pages>>

\* initBrowser throws, and track() with it: no page was opened
BH_LaunchFail(c) ==
    /\ call[c].st \in {"launching", "relaunching"}
    /\ call' = [call EXCEPT ![c].st = "thrown"]
    /\ UNCHANGED <<strategyFrame, browser, launched, closed, pages>>

\* page = await this.browser!.newPage(): a handle, or an exception (this.browser
\* is null again, or the engine refuses) that the catch block turns into a result
BH_NewPage(c, ok) ==
    /\ call[c].st = "ready"
    /\ IF browser # NULL /\ ok
       THEN /\ pages' = pages \cup {c}
            /\ call' = [call EXCEPT ![c].st = "page", ![c].page = c, ![c].on = browser]
       ELSE /\ pages' = pages
            /\ call' = [call EXCEPT
                   ![c].st = "finally",
                   ![c].result = <<Failure(call[c].p, "exception", "BROWSER_HARD")>>]
    /\ UNCHANGED <<strategyFrame, browser, launched, closed>>

\* a try block that runs the adapter before it looks at the page's URL
tryBlock_evaluateFirst(p, outcome, b) ==
    [result |-> BrowserHardTrack(p, outcome, b),
     evaluated |-> outcome.kind \in {"page", "bot"}]

\* the try block after newPage: the URL check returns before page.evaluate is
\* reached; an exception leaves the block without an extracted value
tryBlock(p, outcome, b) ==
    [result |-> BrowserHardTrack(p, outcome, b),
     evaluated |-> outcome.kind = "page"]

\* the body of the try block after newPage up to its return or the catch block
BH_Work(c, outcome) ==
    /\ call[c].st = "page"
    /\ LET t == tryBlock(call[c].p, outcome, call[c].on)
       IN  call' = [call EXCEPT ![c].st = "finally", ![c].saw = outcome.kind,
                                ![c].amount = outcome.price,
                                ![c].evaluated = t.evaluated,
                                ![c].result = <<t.result>>]
    /\ UNCHANGED <<strategyFrame, browser, launched, closed, pages>>

\* a track() that closes its page only before the return of a success
finallyPages_successOnly(c) ==
    IF call[c].page # NULL /\ call[c].result[1].success
    THEN pages \ {call[c].page} ELSE pages

\* the finally block: if (page) page.close()
finallyPages(c) ==
    IF call[c].page # NULL THEN pages \ {call[c].page} ELSE pages

\* the finally block runs and track() returns its result
BH_Finally(c) ==
    /\ call[c].st = "finally"
    /\ pages' = finallyPages(c)
    /\ call' = [call EXCEPT ![c].st = "returned"]
    /\ UNCHANGED <<strategyFrame, browser, launched, closed>>

\* close() with an engine: browser.close() closes the engine with its pages
BH_Close ==
    /\ browser # NULL
    /\ closed' = Append(closed, browser)
    /\ browser' = NULL
    /\ pages' = {c \in pages : call[c].on # browser}
    /\ UNCHANGED <<strategyFrame, launched, call>>

NextBrowser ==
    \/ \E c \in Callers : \E p \in BrowserProducts : BH_Track(c, p)
    \/ \E c \in Callers : BH_LaunchOk(c)
    \/ \E c \in Callers : BH_LaunchInstall(c)
    \/ \E c \in Callers : BH_LaunchFail(c)
    \/ \E c \in Callers : \E ok \in BOOLEAN : BH_NewPage(c, ok)
    \/ \E c \in Callers : \E o \in BrowserOutcomes : BH_Work(c, o)
    \/ \E c \in Callers : BH_Finally(c)
    \/ BH_Close

SpecBrowser == InitBrowser /\ [][NextBrowser]_vars

(***************************************************************************)
(* The scheduler on drawn catalog states                                   *)
(***************************************************************************)
snap(price, age) ==
    [price |-> price, created_at |-> ProbeNow - age, source |-> "automated-tracking"]

\* catalog rows as earlier runs, views and watchlists can have left them
SchedProfiles == <<
    \* HIGH, never tracked
    [watch |-> 1, view |-> NULL, tracked |-> NULL, snaps |-> <<>>],
    \* HIGH, tracked 10 hours ago
    [watch |-> 0, view |-> ProbeNow - MinutesPerDay,
     tracked |-> ProbeNow - 10 * MinutesPerHour, snaps |-> <<snap(1, 600)>>],
    \* MEDIUM, tracked exactly 24 hours ago
    [watch |-> 0, view |-> NULL, tracked |-> ProbeNow - MediumHours * MinutesPerHour,
     snaps |-> <<snap(1, 3 * MinutesPerDay), snap(2, MinutesPerDay)>>],
    \* MEDIUM, tracked a minute less than 24 hours ago
    [watch |-> 0, view |-> ProbeNow - 10 * MinutesPerDay,
     tracked |-> ProbeNow - MediumHours * MinutesPerHour + 1,
     snaps |-> <<snap(2, 3 * MinutesPerDay), snap(1, MinutesPerDay)>>],
    \* LOW, tracked exactly 168 hours ago
    [watch |-> 0, view |-> ProbeNow - 10 * MinutesPerDay,
     tracked |-> ProbeNow - LowHours * MinutesPerHour,
     snaps |-> <<snap(1, 9 * MinutesPerDay), snap(1, 7 * MinutesPerDay)>>],
    \* LOW, tracked an hour ago
    [watch |-> 0, view |-> ProbeNow - ActiveDays * MinutesPerDay,
     tracked |-> ProbeNow - MinutesPerHour,
     snaps |-> <<snap(1, 9 * MinutesPerDay), snap(2, 8 * MinutesPerDay)>>],
    \* INACTIVE, never tracked
    [watch |-> 0, view |-> NULL, tracked |-> NULL, snaps |-> <<>>],
    \* INACTIVE, tracked 100 hours ago
    [watch |-> 0, view |-> ProbeNow - 31 * MinutesPerDay,
     tracked |-> ProbeNow - 100 * MinutesPerHour, snaps |-> <<snap(2, 6000)>>],
    \* INACTIVE, never tracked: the price changed two days ago, the latest two
    \* observations are equal
    [watch |-> 0, view |-> NULL, tracked |-> NULL,
     snaps |-> <<snap(1, 3 * MinutesPerDay), snap(2, 2 * MinutesPerDay),
                 snap(2, MinutesPerDay)>>] >>

InitSched ==
    /\ now = ProbeNow
    /\ ticks = 0
    /\ \E f \in [Products -> DOMAIN SchedProfiles] :
          /\ watchlist_items = [p \in Products |-> SchedProfiles[f[p]].watch]
          /\ product_views = [p \in Products |-> SchedProfiles[f[p]].view]
          /\ last_tracked_at = [p \in Products |-> SchedProfiles[f[p]].tracked]
          /\ price_snapshots = [p \in Products |-> SchedProfiles[f[p]].snaps]
    /\ probe = NoProbe
    /\ IdleRun

SchedOptions ==
    [limit : 0..MaxLimit, merchant : {ANY} \cup Merchants, concurrency : {MaxConc},
     force : BOOLEAN]

NextSched ==
    /\ pc = "idle"
    /\ \/ \E e \in ForceModeValues : CronMain(e)
       \/ \E o \in SchedOptions : trackPrices(o, UNSET, "call")

SpecSched == InitSched /\ [][NextSched]_vars

(***************************************************************************)
(* Properties                                                              *)
(***************************************************************************)

\* C1: calculatePriority maps every combination of watch count, last view and last
\* price change, absent signals included, to exactly one tier: HIGH if the watch
\* count is positive or the last view is at most 7 days old (exactly 7 days
\* included), else MEDIUM if the last price change is at most 7 days old, else LOW
\* if the last view is at most 30 days old, else INACTIVE.
C1_PriorityTable ==
    probe.tier # "none" =>
        LET w == probe.in.watchlist_count
            v == probe.in.last_visited_at
            c == probe.in.last_price_change_at
            high == w > 0 \/ (v # NULL /\ now - v <= 7 * 24 * 60)
            medium == ~high /\ c # NULL /\ now - c <= 7 * 24 * 60
            low == ~high /\ ~medium /\ v # NULL /\ now - v <= 30 * 24 * 60
        IN  /\ probe.tier \in {"high", "medium", "low", "inactive"}
            /\ (probe.tier = "high") = high
            /\ (probe.tier = "medium") = medium
            /\ (probe.tier = "low") = low
            /\ (probe.tier = "inactive") = (~high /\ ~medium /\ ~low)

\* an unwatched product last viewed exactly 7 days ago came out HIGH
C1_Witness ==
    /\ probe.tier = "high"
    /\ probe.in.watchlist_count = 0
    /\ probe.in.last_visited_at = now - 7 * 24 * 60

\* C2: a product with no last_tracked_at is due; otherwise it is due exactly when
\* the time since last_tracked_at is at least the threshold of its tier (HIGH 12 h,
\* MEDIUM 24 h, LOW 168 h, INACTIVE 720 h); a HIGH product tracked 10 hours ago is
\* not due and one tracked exactly 12 hours ago is.
C2_DueRule ==
    probe.due # <<>> =>
        LET tracked == probe.in.last_tracked_at
            hours == CASE probe.in.priority = "high" -> 12
                       [] probe.in.priority = "medium" -> 24
                       [] probe.in.priority = "low" -> 168
                       [] probe.in.priority = "inactive" -> 720
        IN  /\ tracked = NULL => probe.due[1]
            /\ tracked # NULL => (probe.due[1] <=> now - tracked >= hours * 60)
            /\ probe.in.priority = "high" /\ tracked = now - 10 * 60 => ~probe.due[1]
            /\ probe.in.priority = "high" /\ tracked = now - 12 * 60 => probe.due[1]

\* a HIGH product tracked exactly 12 hours ago came out due
C2_Witness ==
    /\ probe.due = <<TRUE>>
    /\ probe.in.priority = "high"
    /\ probe.in.last_tracked_at = now - 12 * 60

\* the catalog rows that pass the merchant filter of the current run
C_rows == {p \in Products : opts.merchant = "" \/ merchantOf(p) = opts.merchant}

\* the tier the scheduler gives product p now
C_tier(p) == productWithPriority(p, now).priority

\* the rows eligible for the current run: all of them under force, else the due ones
C_eligible ==
    {p \in C_rows : opts.force \/ shouldTrackProduct(productWithPriority(p, now), now)}

C_rank(tier) ==
    CASE tier = "high" -> 1 [] tier = "medium" -> 2 [] tier = "low" -> 3
      [] tier = "inactive" -> 4

C_min(a, b) == IF a < b THEN a ELSE b

\* C3: the work list is ordered HIGH, MEDIUM, LOW, INACTIVE, keeps the catalog order
\* within a tier, and is the first `limit` elements of that ordering: it never holds
\* more than `limit` products, and no eligible product left out ranks before one
\* that is in the list.
C3_WorkListOrder ==
    pc # "idle" =>
        LET n == Len(products)
            listed == {products[k].id : k \in 1..n}
        IN  /\ n <= opts.limit
            /\ n = C_min(opts.limit, Cardinality(C_eligible))
            /\ Cardinality(listed) = n
            /\ \A k \in 1..n :
                  /\ products[k].id \in C_eligible
                  /\ products[k].priority = C_tier(products[k].id)
            /\ \A a, b \in 1..n :
                  a < b =>
                    /\ C_rank(products[a].priority) <= C_rank(products[b].priority)
                    /\ products[a].priority = products[b].priority
                         => products[a].id < products[b].id
            /\ \A q \in C_eligible \ listed : \A k \in 1..n :
                  /\ C_rank(C_tier(q)) >= C_rank(products[k].priority)
                  /\ C_tier(q) = products[k].priority => q > products[k].id

\* a list cut to two of three eligible products: a HIGH one, then the first of two
\* MEDIUM ones, the second MEDIUM one being left out
C3_Witness ==
    /\ pc # "idle"
    /\ Len(products) = 2
    /\ opts.limit = 2
    /\ Cardinality(C_eligible) = 3
    /\ products[1].priority = "high"
    /\ products[2].priority = "medium"
    /\ products[1].id > products[2].id
    /\ \E q \in C_eligible : q > products[2].id /\ C_tier(q) = "medium"

\* C4: with force the due-check is not applied, every row that passes the merchant
\* filter is eligible whatever its last_tracked_at and tier; without force every
\* product of the work list is due; the cron entry point takes force from the
\* environment toggle.
C4_ForceBypass ==
    pc # "idle" =>
        LET n == Len(products)
            listed == {products[k].id : k \in 1..n}
            hours(tier) == CASE tier = "high" -> 12 [] tier = "medium" -> 24
                             [] tier = "low" -> 168 [] tier = "inactive" -> 720
        IN  /\ entry = "cron" => (opts.force <=> env = "true")
            /\ opts.force =>
                  /\ listed \subseteq C_rows
                  /\ Cardinality(listed) = C_min(opts.limit, Cardinality(C_rows))
            /\ ~opts.force =>
                  \A k \in 1..n :
                     \/ last_tracked_at[products[k].id] = NULL
                     \/ now - last_tracked_at[products[k].id]
                           >= hours(products[k].priority) * 60

\* a cron run with FORCE_MODE=true lists a product that is not due
C4_Witness ==
    /\ entry = "cron"
    /\ env = "true"
    /\ \E k \in 1..Len(products) : ~shouldTrackProduct(products[k], now)

\* every attempt that has returned, as (product, history entry) pairs
C_attempts == {<<p, n>> : p \in Products, n \in 1..MaxRuns}
                \cap {pn \in Products \X (1..MaxRuns) : pn[2] <= Len(hist[pn[1]])}

C_latest(log) == log[Len(log)].price

\* C5: for each successful tracking result the recorder inserts a new observation
\* exactly when the product has no stored observation or its latest stored price
\* differs from the new price; with an equal price nothing is inserted.
C5_RecorderRule ==
    \A pn \in C_attempts :
        LET e == hist[pn[1]][pn[2]]
        IN  e.success =>
              IF e.before = <<>> \/ C_latest(e.before) # e.price
              THEN /\ Len(e.after) = Len(e.before) + 1
                   /\ SubSeq(e.after, 1, Len(e.before)) = e.before
                   /\ C_latest(e.after) = e.price
              ELSE e.after = e.before

\* the recorder rule on the results the batch callback hands to the recorder
C5_RecorderRuleNonZero ==
    \A pn \in C_attempts :
        LET e == hist[pn[1]][pn[2]]
        IN  e.success /\ e.price # 0 =>
              IF e.before = <<>> \/ C_latest(e.before) # e.price
              THEN /\ Len(e.after) = Len(e.before) + 1
                   /\ SubSeq(e.after, 1, Len(e.before)) = e.before
                   /\ C_latest(e.after) = e.price
              ELSE e.after = e.before

\* two recorder runs in a row for product p: history entries n < m that both went
\* through the recorder, with no recorder run of p between them, not even one cut
\* short by the end of its process: the second starts from the log the first left
C_consecutiveRecorded(p, n, m) ==
    /\ n < m
    /\ m <= Len(hist[p])
    /\ hist[p][n].recorded
    /\ hist[p][m].recorded
    /\ \A j \in (n + 1)..(m - 1) : ~hist[p][j].recorded
    /\ hist[p][m].before = hist[p][n].after

C7_AlwaysTouched ==
    \A p \in Products :
        hist[p] # <<>> => last_tracked_at[p] = hist[p][Len(hist[p])].at

C_hours(tier) ==
    CASE tier = "high" -> 12 [] tier = "medium" -> 24 [] tier = "low" -> 168
      [] tier = "inactive" -> 720

\* C8: across successive non-force runs, a product attempted in a run at time t is
\* not selected again before t plus the threshold of its tier, also when the attempt
\* failed. The earlier runs looked at are those that completed with exit code 0.
C8_BackOff ==
    pc \in {"loop", "batch", "delay", "closing", "closing_fatal"} /\ ~opts.force =>
        \A k \in 1..Len(products) :
            LET p == products[k].id
            IN  \A n \in 1..Len(hist[p]) :
                    /\ hist[p][n].run < runs
                       /\ exitCodes[hist[p][n].run] = 0
                       /\ ~hist[p][n].force
                       => now >= hist[p][n].at + C_hours(products[k].priority) * 60

\* work-list positions whose callback has been started in the current run
C_started == {k \in DOMAIN item : item[k].st # "pending"}

\* the batch (0-based) of work-list position k
C_batchIndex(k) == (k - 1) \div opts.concurrency

\* C9: the work list is processed in consecutive batches of `concurrency` products;
\* at most `concurrency` trackings are in flight at any time, and no product of
\* batch N+1 is started before every product of batch N has completed.
C9_Batches ==
    pc # "idle" =>
        /\ Cardinality(InFlight) <= opts.concurrency
        /\ \A k \in C_started : \A j \in DOMAIN item :
               C_batchIndex(j) < C_batchIndex(k) => item[j].st = "returned"
        /\ \A k \in C_started : \A j \in DOMAIN item :
               C_batchIndex(j) = C_batchIndex(k) => j \in C_started
        /\ pc = "batch" =>
               C_started = {k \in DOMAIN item : C_batchIndex(k) <= i \div opts.concurrency}

\* a second batch is in flight, full, after a first full batch completed
C9_Witness ==
    /\ pc = "batch"
    /\ opts.concurrency > 1
    /\ i = opts.concurrency
    /\ \A k \in 1..opts.concurrency : item[k].st = "returned"
    /\ \E k \in InFlight : C_batchIndex(k) = 1

\* the attempts of product p that returned in the current run
C_attemptsInRun(p) == {n \in 1..Len(hist[p]) : hist[p][n].run = runs}

\* the counts of the run-end summary
C_successful == Cardinality({k \in 1..Len(results) : results[k].success})
C_failed == Len(results) - C_successful

\* C10: an individual item failure never aborts the run: the run is cut short only
\* by a failed catalog query or a rejected callback (the renderer failing to start),
\* no product is attempted twice in a run, the loop goes on to the next batch
\* whatever the results of the batch just done, and a run that reaches its summary
\* has attempted every product of the work list exactly once, holds exactly one
\* result per product, and counts successes plus failures equal to the length of the
\* work list.
C10_NoAbortOnItemFailure ==
    /\ pc \in {"closing_fatal", "exit1"} =>
           catalog = "error" \/ \E k \in DOMAIN item : item[k].st = "thrown"
    /\ \A p \in Products : Cardinality(C_attemptsInRun(p)) <= 1
    /\ pc = "delay" => i < Len(products) /\ Len(results) = i
    /\ pc \in {"closing", "exit0"} /\ runs > 0 =>
           /\ Len(results) = Len(products)
           /\ \A k \in 1..Len(products) :
                  /\ item[k].st = "returned"
                  /\ results[k] = item[k].result
                  /\ results[k].productId = products[k].id
                  /\ Cardinality(C_attemptsInRun(products[k].id)) = 1
           /\ \A p \in Products :
                  (\A k \in 1..Len(products) : products[k].id # p) => C_attemptsInRun(p) = {}
           /\ C_successful + C_failed = Len(products)
           /\ C_failed = Cardinality({k \in 1..Len(products) : ~item[k].result.success})

\* a run ended with exit code 0 after a failure in its first batch and a success in
\* a later batch
C10_Witness ==
    /\ pc = "exit0"
    /\ opts.concurrency < Len(products)
    /\ ~results[1].success
    /\ \E k \in (opts.concurrency + 1)..Len(results) : results[k].success
    /\ C_failed > 0
    /\ C_successful > 0

\* C11: neither fetch strategy ever throws out of track(): every failure mode comes
\* back as a result with success = false, an error text and the strategy name.
C11_NeverThrows ==
    \A k \in DOMAIN item :
        /\ item[k].st # "thrown"
        /\ item[k].st \in {"db_read", "db_insert", "db_touch", "returned"}
           /\ ~item[k].result.success
               => /\ item[k].result.error # ""
                  /\ item[k].result.strategyUsed = getStrategyForProduct(products[k].id)

\* C12: the lazy start of the shared rendering engine is guarded: however many
\* track() calls of a batch are first callers, one run launches the engine at most
\* once.
C12_SingleLaunch == launched <= 1

\* the launch attempts (puppeteer.launch calls) made by work-list positions 1..k of
\* the current run
RECURSIVE C_launchAttempts(_)
C_launchAttempts(k) ==
    IF k = 0 THEN 0 ELSE item[k].launches + C_launchAttempts(k - 1)

\* C13: a run that completes ends with exit code 0 whatever the results; a run ends
\* with a non-zero code only when the catalog query failed or the rendering engine
\* failed to start, and a run attempts the engine launch at most twice.
C13_ExitCodes ==
    /\ pc = "exit0" =>
           catalog = "ok" /\ exitCodes[runs] = 0 /\ Len(results) = Len(products)
    /\ pc = "exit1" =>
           /\ exitCodes[runs] = 1
           /\ catalog = "error" \/ \E k \in DOMAIN item : item[k].st = "thrown"
    /\ pc \in {"closing", "exit0"} => \A k \in DOMAIN item : item[k].st = "returned"
    /\ C_launchAttempts(Len(item)) <= 2

\* C20: when a run has ended, on the normal path and on the fatal path, every
\* rendering engine instance started during the run has been closed exactly once,
\* and nothing else was closed.
C20_TeardownOnce ==
    pc \in {"exit0", "exit1"} =>
        /\ \A b \in 1..launched :
               Cardinality({n \in 1..Len(closed) : closed[n] = b}) = 1
        /\ \A n \in 1..Len(closed) : closed[n] \in 1..launched

\* the hostname holds one of the configured hostnames
C_configured(hostname) ==
    \E n \in 1..Len(DOMAIN_CONFIG) : includes(hostname, DOMAIN_CONFIG[n].domain)

\* C14: getStrategyForProduct is total: a URL whose hostname contains one of the
\* configured hostnames gets BROWSER_HARD, every other host and every malformed URL
\* gets HTTP_FAST.
C14_StrategyByHost ==
    probe.strategy # "none" =>
        /\ probe.strategy \in {"BROWSER_HARD", "HTTP_FAST"}
        /\ probe.strategy = "BROWSER_HARD"
               <=> probe.url.valid /\ C_configured(probe.url.hostname)

\* a usable amount: a number above 0
C_usable(v) == v # NULL /\ v # NAN /\ v > 0

\* what the stages of a document yield, in the order structured data, price meta
\* fields, embedded state blob, DOM selectors
C_stages(doc) == <<doc.jsonld.amount, doc.meta, doc.blob, doc.dom>>

\* the first usable amount of the stages in their order, NULL when there is none
C_firstUsable(doc) ==
    LET st == C_stages(doc)
        ok == {n \in 1..Len(st) : C_usable(st[n])}
    IN  IF ok = {} THEN NULL ELSE st[CHOOSE n \in ok : \A m \in ok : n <= m]

\* C15: the extraction cascade tries structured data, price meta fields, embedded
\* state blob and DOM selectors in that order and returns the first usable amount:
\* a later stage is consulted exactly when no earlier one yielded a usable amount,
\* and a document whose structured data reports 129900 returns 129900.
C15_Cascade ==
    probe.out # <<>> => probe.out[1] = C_firstUsable(probe.doc)

\* the characters of a numeral that are not c
C_without(str, c) == SelectSeq(str, LAMBDA x : x # c)

\* the number of occurrences of c in str
C_count(str, c) == Len(SelectSeq(str, LAMBDA x : x = c))

\* the reading of a numeral of a thousands-dot currency: every '.' groups
\* thousands and carries no value, the ',' is the decimal point; <<>> when the
\* numeral has no digit
C_thousandsDotReading(numeral) ==
    LET digits == C_without(numeral, ".")
        k == indexOf(digits, <<",">>)
        whole == IF k = 0 THEN digits ELSE SubSeq(digits, 1, k - 1)
        part == IF k = 0 THEN <<>> ELSE SubSeq(digits, k + 1, Len(digits))
    IN  IF whole \o part = <<>> THEN <<>>
        ELSE <<[int |-> digitsValue(whole), frac |-> trimZeros(part)]>>

C17_Idempotent ==
    probe.twice # <<>> => probe.twice = probe.once

C17_Witness ==
    /\ probe.twice # <<>>
    /\ probe.url.valid
    /\ ~includes(probe.url.host, <<"mercadolibre">>)
    /\ probe.url.hash = "text"
    /\ \E n \in 1..Len(probe.url.query.params) : probe.url.query.params[n].name = "ref"
    /\ probe.once[1].query.present
    /\ probe.once[1] # probe.url

\* C18: price observations are append-only: no step of a tracking run updates or
\* deletes a stored observation; for every product the stored sequence only
\* grows at its end and its earlier entries stay as they are.
C18_AppendOnly ==
    [][\A p \in Products :
          /\ Len(price_snapshots'[p]) >= Len(price_snapshots[p])
          /\ SubSeq(price_snapshots'[p], 1, Len(price_snapshots[p])) = price_snapshots[p]]_vars

C18_Witness ==
    \E p \in Products :
        /\ Len(price_snapshots[p]) >= 2
        /\ \E n \in 1..Len(hist[p]) :
               /\ hist[p][n].before # <<>>
               /\ Len(hist[p][n].after) = Len(hist[p][n].before) + 1

\* C19: in the rendering strategy every page a track() call opened is closed
\* before the call returns, on every exit path (success, bot detection, price not
\* found, exception); once every call made has returned, no page is open.
C19_PagesClosed ==
    /\ \A c \in Callers :
           call[c].st = "returned" /\ call[c].page # NULL => call[c].page \notin pages
    /\ (\A c \in Callers : call[c].st \in {"idle", "returned", "thrown"}) => pages = {}

C19_Witness ==
    /\ browser # NULL
    /\ closed = <<>>
    /\ \A c \in Callers : call[c].st = "returned" /\ call[c].page # NULL
    /\ \E c \in Callers : call[c].result[1].error = "Bot detection (redirect)"
    /\ \E c \in Callers : call[c].result[1].error = "exception"

C22_ZeroNotFound ==
    /\ \A k \in DOMAIN item :
           item[k].result.success => item[k].result.price # 0
    /\ \A p \in Products : \A n \in 1..Len(price_snapshots[p]) :
           price_snapshots[p][n].price # 0

\* C23: a persistence error on one product (the read of the latest observation,
\* the insert or the last-tracked update fails) is surfaced as a failure of that
\* item in the run's results; it does not abort the batch, and the other products
\* of the batch and of later batches are still tracked and persisted.
C23_PersistenceFailureSurfaced ==
    /\ \A k \in DOMAIN item :
           item[k].st = "returned" /\ item[k].dbError => ~item[k].result.success
    /\ pc \notin {"closing_fatal", "exit1"}
    /\ pc \in {"closing", "exit0"} =>
           \A k \in DOMAIN item : item[k].st = "returned"

\* what the recorder leaves of a log for a result
C_logAfter(log, result) ==
    IF truthyPrice(result) /\ (log = <<>> \/ C_latest(log) # result.price)
    THEN Append(log, [price |-> result.price, created_at |-> now,
                      source |-> "automated-tracking"])
    ELSE log

\* C24: within a batch the order in which the items complete does not affect the
\* outcome: whenever an item has completed, and so at the end of the batch for each
\* of its items, the observations and the last-tracked timestamp of its product are
\* determined by the product's state at the start of the run and the item's own
\* result, whatever the other items of the batch have done by then; the results
\* are collected in work-list order.
C24_OrderIndependent ==
    pc \in {"batch", "delay", "closing"} =>
        /\ \A k \in DOMAIN item :
               item[k].st = "returned" =>
                   LET p == products[k].id
                   IN  /\ price_snapshots[p] = C_logAfter(item[k].start, item[k].result)
                       /\ last_tracked_at[p] = IF truthyPrice(item[k].result) THEN now
                                               ELSE item[k].startTracked
        /\ \A j \in 1..Len(results) : results[j] = item[j].result

\* two items of one batch that both yield a price: the one later in the work list
\* has completed and stored its observation while the earlier one, which has
\* stored its own, is still in the recorder
C24_Witness ==
    /\ pc = "batch"
    /\ \E j, k \in DOMAIN item :
           /\ j < k
           /\ C_batchIndex(j) = C_batchIndex(k)
           /\ item[k].st = "returned" /\ truthyPrice(item[k].result)
           /\ Len(price_snapshots[products[k].id]) > Len(item[k].start)
           /\ item[j].st = "db_touch"
           /\ Len(price_snapshots[products[j].id]) > Len(item[j].start)

\* C25: a product whose tracking_enabled column is false is never in the work list
\* of an automated tracking run, in normal mode and in force mode.
C25_DisabledNeverTracked ==
    \A k \in 1..Len(products) : tracking_enabled(products[k].id)

\* C26: every result the run summary counts as successful went through the
\* recorder: for each result with success = true the comparison with the latest
\* observation ran and the product's last-tracked timestamp was updated.
C26_SuccessRecorded ==
    pc \in {"batch", "delay", "closing"} =>
        \A k \in DOMAIN item :
            item[k].st = "returned" /\ item[k].result.success =>
                /\ truthyPrice(item[k].result)
                /\ price_snapshots[products[k].id] # <<>>
                /\ C_latest(price_snapshots[products[k].id]) = item[k].result.price
                /\ last_tracked_at[products[k].id] = now

\* C27: closeAll starts only after every track() call dispatched in the run has
\* returned: once teardown has run no callback is in flight, and the shared engine
\* is never closed under an item that is still in flight, also when another item
\* of the batch fails fatally.
C27_TeardownAfterReturn ==
    (pc \in {"exit0", "exit1"} /\ catalog = "ok") => InFlight = {}

\* C28: after any number of tracking runs executed one after another, no product's
\* observation log holds two consecutive observations with the same price that
\* were both written by automated tracking.
C28_NoRepeatedPrice ==
    \A p \in Products : \A n \in 1..(Len(price_snapshots[p]) - 1) :
        (/\ price_snapshots[p][n].source = "automated-tracking"
         /\ price_snapshots[p][n + 1].source = "automated-tracking")
            => price_snapshots[p][n].price # price_snapshots[p][n + 1].price

\* C29: the scheduler derives the last price change from the two most recent
\* observations only: it is the time of the latest observation when the latest two
\* differ in price and absent otherwise, so a product with fewer than two stored
\* observations has no price-change signal and is never MEDIUM; the first
\* observation of a product does not count as a price change.
C29_ChangeFromLastTwo ==
    \A k \in 1..Len(products) :
        LET p == products[k].id
            log == price_snapshots[p]
            n == Len(log)
        IN  /\ n < 2 => /\ products[k].last_price_change_at = NULL
                        /\ products[k].priority # MEDIUM
            /\ n >= 2 =>
                   products[k].last_price_change_at =
                       IF log[n].price # log[n - 1].price THEN log[n].created_at ELSE NULL

\* the work list holds a product with one observation made within the last seven
\* days, and one whose price changed before its latest two observations
C29_Witness ==
    /\ \E k \in 1..Len(products) :
           LET log == price_snapshots[products[k].id]
           IN  /\ Len(log) = 1
               /\ now - log[1].created_at < RecentDays * MinutesPerDay
               /\ products[k].priority = INACTIVE
    /\ \E k \in 1..Len(products) :
           LET log == price_snapshots[products[k].id]
           IN  /\ Len(log) = 3
               /\ log[1].price # log[2].price
               /\ products[k].last_price_change_at = NULL

\* C30 as stated: a BROWSER_HARD product of a merchant other than 'mercadolibre'
\* always ends with success = false and the error 'Price not found'.
C30_AlwaysPriceNotFound ==
    \A c \in Callers :
        (call[c].result # <<>> /\ merchantOf(call[c].p) # "mercadolibre") =>
            /\ ~call[c].result[1].success
            /\ call[c].result[1].error = "Price not found"

\* C30: the rendering strategy extracts only for merchant 'mercadolibre': a track()
\* call for a product of another merchant never returns success = true, and when
\* its page was loaded and handed to the adapter the result is success = false with
\* error 'Price not found', whatever amount the page shows; a page that ended on a
\* verification URL or an exception in the try block gives its own error.
C30_OtherMerchantNotExtracted ==
    \A c \in Callers :
        (call[c].result # <<>> /\ merchantOf(call[c].p) # "mercadolibre") =>
            /\ ~call[c].result[1].success
            /\ call[c].result[1].price = NULL
            /\ call[c].saw = "page" => call[c].result[1].error = "Price not found"
            /\ call[c].saw = "bot" => call[c].result[1].error = "Bot detection (redirect)"
            /\ call[c].saw = "exception" => call[c].result[1].error = "exception"

C30_Witness ==
    \E c, d \in Callers :
        /\ call[c].st = "returned" /\ call[d].st = "returned"
        /\ merchantOf(call[c].p) = "amazon" /\ getStrategyForProduct(call[c].p) = "BROWSER_HARD"
        /\ call[c].saw = "page" /\ call[c].amount \in Prices
        /\ call[c].result[1].error = "Price not found"
        /\ merchantOf(call[d].p) = "mercadolibre"
        /\ call[d].saw = "page" /\ call[d].amount = call[c].amount
        /\ call[d].result[1].success

=============================================================================
